---------------------------- MODULE Spec2Model ----------------------------
(***************************************************************************)
(* State-machine model of the stateful hooks of the repository:            *)
(*   - useAsync                      (src/src/hooks/useAsync.ts)            *)
(*   - useLocalStorage / useSessionStorage                                  *)
(*                                   (src/src/pages/StateManagementDemo.tsx *)
(*                                    lines 326-448)                        *)
(* Each hook is an independent state machine with a specification of its   *)
(* own (AsyncSpec, StorageSpec); the variables of the other hooks stay at  *)
(* their initial values under it.                                          *)
(***************************************************************************)
EXTENDS Integers, Sequences, FiniteSets, TLC

VARIABLES
    \* ---- useAsync ----
    state,            \* the AsyncState cell of useState (status, data, error, isLoading)
    isMountedRef,     \* isMountedRef.current
    immediate,        \* the immediate argument of the last render
    attached,         \* the consumer component is mounted
    nCalls,           \* number of execute() calls made so far (calls are numbered 1..nCalls)
    pending,          \* the calls whose asyncFunction() promise has not settled
    outcome,          \* history: how each call settled
    concurrent,       \* history: the calls started while the previous call was pending
    autoExecs,        \* history: number of execute() calls made by the effect
    createdImmediate, \* history: the immediate argument at creation
    immediateChanged, \* history: a re-render passed another immediate than creation did
    pendingAtDetach,  \* history: the calls in flight when the consumer detached
    \* ---- useLocalStorage / useSessionStorage ----
    store,            \* window.localStorage (or sessionStorage): key -> entry
    key,              \* the key argument of the hook
    initialValue,     \* the initialValue argument of the hook
    storedValue,      \* the state cell of useState, with every queued update applied
    closureValue,     \* storedValue as captured by the memoised setValue (last render)
    lastOp,           \* history: the last operation on the hook
    lastValue,        \* history: valueToStore of the last setValue call
    readFailed,       \* history: getItem threw when the instance was created
    chainBase,        \* history: storedValue before the current run of updater calls
    chainLen,         \* history: length of the current run of setValue(prev => ...) calls
    \* ---- NotificationProvider ----
    notifications,    \* the notifications state cell, with every queued update applied
    nTimers,          \* the pending setTimeout callbacks of addNotification
    now,              \* Date.now(), in ms since the provider was created
    nAdded,           \* history: every notification addNotification created, in call order
    nGone,            \* history: the notifications (by seq) removed, expired or cleared
    nOp,              \* history: the last operation on the queue
    \* ---- useDebounce ----
    dValue,           \* the value argument of the last render
    dDelay,           \* the delay argument of the last render
    debouncedValue,   \* the state cell of useState
    dTimers,          \* the pending setTimeout callbacks of the effect
    dHandler,         \* handler of the effect that ran last (0: none)
    dAttached,        \* the component that uses the hook is mounted
    dNow,             \* the clock, in ms since the first render
    dScheduled,       \* history: how many timers the effect has scheduled
    dSince,           \* history: when dValue became the latest input
    dSuperseded,      \* history: the timers cancelled since the last emission
    dDetach,          \* history: what was pending when the component unmounted
    dOp,              \* history: the last operation on the hook
    \* ---- useDebouncedCallback ----
    cCallback,        \* the callback argument of the last render
    cDelay,           \* the delay argument of the last render
    timeoutRef,       \* timeoutRef.current (0: null)
    cTimers,          \* the pending setTimeout callbacks
    cAttached,        \* the component that uses the hook is mounted
    cNow,             \* the clock, in ms since the first render
    cInvokes,         \* history: how many times the returned function was invoked
    cLast,            \* history: the last invocation of the returned function
    cExecuted,        \* history: the invocations (by number) whose timer ran
    cLastExec,        \* history: the last execution of a wrapped callback
    \* ---- useThrottle ----
    tCallback,        \* the callback argument of the last render
    tDelay,           \* the delay argument of the last render
    lastRunRef,       \* lastRunRef.current
    tNow,             \* Date.now(), in ms
    tCreated,         \* history: Date.now() at the first render
    tInvokes,         \* history: how many times the returned function was invoked
    tRuns,            \* history: how many times a wrapped callback was executed
    tLastExec,        \* history: when a wrapped callback was last executed
    tOp,              \* history: the last operation on the hook
    \* ---- FormProvider ----
    formData,         \* the formData state cell, with every queued update applied
    errors,           \* the errors state cell
    touched,          \* the touched state cell
    isSubmitting,     \* the isSubmitting state cell
    fInitialData,     \* the initialData prop of the last render
    fRendered,        \* formData as the last render handed it to the consumers
    fOriginal,        \* history: the initialData prop of the first render
    fOp,              \* history: the last operation on the form
    \* ---- ThemeProvider ----
    theme,            \* the theme state cell, with every queued update applied
    thStore,          \* localStorage: the entry under 'app-theme'
    darkClass,        \* document.documentElement.classList contains 'dark'
    thEffectFor,      \* the theme the effect last ran for ("none": not yet)
    thMounted,        \* the provider is mounted
    thMedia,          \* window.matchMedia: "none" (not available), "dark" or "light"
    thInitial,        \* history: what getInitialTheme returned
    thInitStore,      \* history: the entry under 'app-theme' at the first render
    thOp,             \* history: the last operation on the theme
    \* ---- Modal ----
    modals,           \* per Modal instance: mounted, its props, its keydown listener
    bodyOverflow,     \* document.body.style.overflow
    mOp,              \* history: the last operation on a Modal
    \* ---- calls across the hook boundary ----
    bCall             \* the last call of a hook operation and how it ended

asyncVars == <<state, isMountedRef, immediate, attached, nCalls, pending,
               outcome, concurrent, autoExecs, createdImmediate, immediateChanged,
               pendingAtDetach>>

storageVars == <<store, key, initialValue, storedValue, closureValue, lastOp,
                 lastValue, readFailed, chainBase, chainLen>>

notifVars == <<notifications, nTimers, now, nAdded, nGone, nOp>>

debounceVars == <<dValue, dDelay, debouncedValue, dTimers, dHandler, dAttached,
                  dNow, dScheduled, dSince, dSuperseded, dDetach, dOp>>

callbackVars == <<cCallback, cDelay, timeoutRef, cTimers, cAttached, cNow,
                  cInvokes, cLast, cExecuted, cLastExec>>

throttleVars == <<tCallback, tDelay, lastRunRef, tNow, tCreated, tInvokes, tRuns,
                  tLastExec, tOp>>

earlierVars == <<asyncVars, storageVars, notifVars, debounceVars, callbackVars>>
formVars == <<formData, errors, touched, isSubmitting, fInitialData, fRendered,
              fOriginal, fOp>>

themeVars == <<theme, thStore, darkClass, thEffectFor, thMounted, thMedia,
               thInitial, thInitStore, thOp>>

modalVars == <<modals, bodyOverflow, mOp>>

boundaryVars == <<bCall>>

laterVars == <<throttleVars, formVars, themeVars, modalVars, boundaryVars>>

vars == <<earlierVars, laterVars>>

\* what the actions of one hook leave unchanged: the variables of the others
notAsyncVars == <<storageVars, notifVars, debounceVars, callbackVars, laterVars>>
notStorageVars == <<asyncVars, notifVars, debounceVars, callbackVars, laterVars>>
notNotifVars == <<asyncVars, storageVars, debounceVars, callbackVars, laterVars>>
notDebounceVars == <<asyncVars, storageVars, notifVars, callbackVars, laterVars>>
notCallbackVars == <<asyncVars, storageVars, notifVars, debounceVars, laterVars>>
notThrottleVars == <<earlierVars, formVars, themeVars, modalVars, boundaryVars>>
notFormVars == <<earlierVars, throttleVars, themeVars, modalVars, boundaryVars>>
notThemeVars == <<earlierVars, throttleVars, formVars, modalVars, boundaryVars>>
notModalVars == <<earlierVars, throttleVars, formVars, themeVars, boundaryVars>>
notBoundaryVars == <<earlierVars, throttleVars, formVars, themeVars, modalVars>>

(***************************************************************************)
(* JavaScript values.  A value is a record [tag, n, s]: n carries a number *)
(* or a boolean (1/0), s the characters of a string or of an Error's       *)
(* message.  Texts are sequences of one-character strings.                 *)
(***************************************************************************)
JsVal(tag, n, s) == [tag |-> tag, n |-> n, s |-> s]
JsUndefined == JsVal("undefined", 0, <<>>)
JsNull == JsVal("null", 0, <<>>)
JsBool(b) == JsVal("boolean", IF b THEN 1 ELSE 0, <<>>)
JsNum(n) == JsVal("number", n, <<>>)
JsStr(s) == JsVal("string", 0, s)
JsError(msg) == JsVal("Error", 0, msg)

DigitChars == <<"0", "1", "2", "3", "4", "5", "6", "7", "8", "9">>

RECURSIVE Digits(_)
Digits(n) ==
    IF n < 10 THEN <<DigitChars[n + 1]>>
    ELSE Digits(n \div 10) \o <<DigitChars[(n % 10) + 1]>>

\* String(v) of JavaScript
JsString(v) ==
    CASE v.tag = "undefined" -> <<"u", "n", "d", "e", "f", "i", "n", "e", "d">>
      [] v.tag = "null" -> <<"n", "u", "l", "l">>
      [] v.tag = "boolean" ->
            IF v.n = 1 THEN <<"t", "r", "u", "e">> ELSE <<"f", "a", "l", "s", "e">>
      [] v.tag = "number" -> Digits(v.n)
      [] v.tag = "string" -> v.s
      [] OTHER -> <<"E", "r", "r", "o", "r", ":", " ">> \o v.s

(***************************************************************************)
(* useAsync                                                                *)
(***************************************************************************)
MaxCalls == 3

\* what asyncFunction() may resolve with, and what it may reject with or throw
ResolveValues == {JsNull, JsStr(<<"a">>)}
RejectReasons == {JsError(<<"b", "o", "o", "m">>), JsStr(<<"o", "o", "p", "s">>), JsNull}

NoOutcome == [kind |-> "none", v |-> JsUndefined]

IdleState == [status |-> "idle", data |-> JsNull, error |-> JsNull, isLoading |-> FALSE]

LoadingState ==
    [status |-> "loading", data |-> JsNull, error |-> JsNull, isLoading |-> TRUE]

SuccessStateKeepsError(response) ==
    [status |-> "success", data |-> response, error |-> state.error, isLoading |-> FALSE]

SuccessState(response) ==
    [status |-> "success", data |-> response, error |-> JsNull, isLoading |-> FALSE]

\* error instanceof Error ? error : new Error(String(error))
NormalizeError(error) ==
    IF error.tag = "Error" THEN error ELSE JsError(JsString(error))

ErrorState(error) ==
    [status |-> "error", data |-> JsNull, error |-> NormalizeError(error), isLoading |-> FALSE]

\* the value the effect's cleanup leaves in isMountedRef.current
CleanupRefKept == isMountedRef

CleanupRef == FALSE

\* the guard in front of both setState calls that follow the await
MayApply == isMountedRef

\* execute(): setState(loading), then asyncFunction() is in flight
StartCall ==
    /\ nCalls < MaxCalls
    /\ nCalls' = nCalls + 1
    /\ pending' = pending \cup {nCalls + 1}
    /\ concurrent' = IF nCalls \in pending THEN concurrent \cup {nCalls + 1} ELSE concurrent
    /\ state' = LoadingState

\* the consumer calls execute()
Execute ==
    /\ attached
    /\ StartCall
    /\ UNCHANGED <<isMountedRef, immediate, attached, outcome, autoExecs,
                   createdImmediate, immediateChanged, pendingAtDetach>>
    /\ UNCHANGED notAsyncVars

\* the promise of call c resolves with response
Resolve(c, response) ==
    /\ c \in pending
    /\ pending' = pending \ {c}
    /\ outcome' = [outcome EXCEPT ![c] = [kind |-> "resolved", v |-> response]]
    /\ state' = IF MayApply THEN SuccessState(response) ELSE state
    /\ UNCHANGED <<isMountedRef, immediate, attached, nCalls, concurrent, autoExecs,
                   createdImmediate, immediateChanged, pendingAtDetach>>
    /\ UNCHANGED notAsyncVars

\* the promise of call c rejects (or asyncFunction throws) with error
Reject(c, error) ==
    /\ c \in pending
    /\ pending' = pending \ {c}
    /\ outcome' = [outcome EXCEPT ![c] = [kind |-> "rejected", v |-> error]]
    /\ state' = IF MayApply THEN ErrorState(error) ELSE state
    /\ UNCHANGED <<isMountedRef, immediate, attached, nCalls, concurrent, autoExecs,
                   createdImmediate, immediateChanged, pendingAtDetach>>
    /\ UNCHANGED notAsyncVars

\* a re-render of the consumer: asyncFunction may be a new function, immediate may
\* change.  execute is memoised on [asyncFunction], the effect on [execute, immediate]:
\* when either changed React runs the previous effect's cleanup and then the effect.
Render(fnChanged, newImmediate) ==
    /\ attached
    /\ immediate' = newImmediate
    /\ immediateChanged' = (immediateChanged \/ newImmediate # createdImmediate)
    /\ IF fnChanged \/ newImmediate # immediate
       THEN /\ isMountedRef' = CleanupRef
            /\ IF newImmediate
               THEN StartCall /\ autoExecs' = autoExecs + 1
               ELSE UNCHANGED <<nCalls, pending, concurrent, state, autoExecs>>
       ELSE UNCHANGED <<isMountedRef, nCalls, pending, concurrent, state, autoExecs>>
    /\ UNCHANGED <<attached, outcome, createdImmediate, pendingAtDetach>>
    /\ UNCHANGED notAsyncVars

\* the consumer unmounts: React runs the effect's cleanup
Unmount ==
    /\ attached
    /\ attached' = FALSE
    /\ isMountedRef' = CleanupRef
    /\ pendingAtDetach' = pending
    /\ UNCHANGED <<state, immediate, nCalls, pending, outcome, concurrent, autoExecs,
                   createdImmediate, immediateChanged>>
    /\ UNCHANGED notAsyncVars

\* the state after the first render and its effect
AsyncInit ==
    /\ immediate \in BOOLEAN
    /\ createdImmediate = immediate
    /\ immediateChanged = FALSE
    /\ isMountedRef = TRUE
    /\ attached = TRUE
    /\ outcome = [c \in 1..MaxCalls |-> NoOutcome]
    /\ concurrent = {}
    /\ pendingAtDetach = {}
    /\ IF immediate
       THEN state = LoadingState /\ nCalls = 1 /\ pending = {1} /\ autoExecs = 1
       ELSE state = IdleState /\ nCalls = 0 /\ pending = {} /\ autoExecs = 0

AsyncNext ==
    \/ Execute
    \/ \E c \in 1..MaxCalls, response \in ResolveValues : Resolve(c, response)
    \/ \E c \in 1..MaxCalls, error \in RejectReasons : Reject(c, error)
    \/ \E fnChanged \in BOOLEAN, newImmediate \in BOOLEAN : Render(fnChanged, newImmediate)
    \/ Unmount

(***************************************************************************)
(* JSON text, as JSON.stringify writes it and JSON.parse reads it          *)
(***************************************************************************)
DigitSet == {DigitChars[i] : i \in 1..10}

DigitValue(ch) == CHOOSE d \in 0..9 : DigitChars[d + 1] = ch

RECURSIVE NumberOf(_)
NumberOf(t) ==
    IF Len(t) = 0 THEN 0
    ELSE NumberOf(SubSeq(t, 1, Len(t) - 1)) * 10 + DigitValue(t[Len(t)])

IsNumberText(t) ==
    /\ Len(t) >= 1
    /\ \A i \in 1..Len(t) : t[i] \in DigitSet
    /\ Len(t) > 1 => t[1] # "0"

IsStringText(t) ==
    /\ Len(t) >= 2
    /\ t[1] = "\""
    /\ t[Len(t)] = "\""
    /\ \A i \in 2..(Len(t) - 1) : t[i] \notin {"\"", "\\"}

\* JSON.stringify(v); for undefined it returns undefined, which setItem writes as
\* the text "undefined"
JSONStringify(v) ==
    CASE v.tag = "null" -> <<"n", "u", "l", "l">>
      [] v.tag = "boolean" ->
            IF v.n = 1 THEN <<"t", "r", "u", "e">> ELSE <<"f", "a", "l", "s", "e">>
      [] v.tag = "number" -> Digits(v.n)
      [] v.tag = "string" -> <<"\"">> \o v.s \o <<"\"">>
      [] OTHER -> <<"u", "n", "d", "e", "f", "i", "n", "e", "d">>

\* JSON.parse(t): ok = FALSE stands for the SyntaxError it throws
JSONParse(t) ==
    CASE t = <<"n", "u", "l", "l">> -> [ok |-> TRUE, v |-> JsNull]
      [] t = <<"t", "r", "u", "e">> -> [ok |-> TRUE, v |-> JsBool(TRUE)]
      [] t = <<"f", "a", "l", "s", "e">> -> [ok |-> TRUE, v |-> JsBool(FALSE)]
      [] IsNumberText(t) -> [ok |-> TRUE, v |-> JsNum(NumberOf(t))]
      [] IsStringText(t) -> [ok |-> TRUE, v |-> JsStr(SubSeq(t, 2, Len(t) - 1))]
      [] OTHER -> [ok |-> FALSE, v |-> JsUndefined]

(***************************************************************************)
(* useLocalStorage / useSessionStorage (the two differ only in the store)  *)
(***************************************************************************)
MaxNum == 2
MaxChain == 2

Keys == {"n", "m"}

\* the values a caller stores
JsonValues ==
    {JsNull, JsBool(FALSE), JsBool(TRUE), JsStr(<<>>), JsStr(<<"a">>)}
        \cup {JsNum(i) : i \in 0..MaxNum}

\* the defaults a caller passes as initialValue
Defaults == {JsNum(0), JsStr(<<"d">>)}

\* what an uncaught exception would hand to the caller
JsThrown == JsVal("thrown", 0, <<>>)

Absent == [present |-> FALSE, text |-> <<>>]
Present(t) == [present |-> TRUE, text |-> t]

\* what the store may hold for a key when an instance is created
InitialEntries ==
    {Absent, Present(<<>>), Present(<<"{">>), Present(<<"0">>),
     Present(<<"n", "u", "l", "l">>), Present(<<"\"", "a", "\"">>)}

\* what the store holds for the keys of other consumers
OtherEntry == Present(<<"0">>)

\* if (item): getItem yields null for an absent key; null and '' are falsy
ItemTruthy(entry) == entry.present /\ entry.text # <<>>

ReadInitialParsedTruthy(entry, default, readFails) ==
    IF readFails THEN default
    ELSE IF entry.present /\ JSONParse(entry.text).ok
                /\ JSONParse(entry.text).v \notin
                       {JsNull, JsBool(FALSE), JsNum(0), JsStr(<<>>)}
         THEN JSONParse(entry.text).v
         ELSE default

\* the initializer of useState: try { item = getItem(key); if (item) return
\* JSON.parse(item); return initialValue } catch { return initialValue }
ReadInitial(entry, default, readFails) ==
    IF readFails THEN default
    ELSE IF ItemTruthy(entry)
         THEN IF JSONParse(entry.text).ok THEN JSONParse(entry.text).v ELSE default
         ELSE default

\* the updater functions a caller passes to setValue
Updaters == {"inc"}
ApplyUpdater(f, prev) == JsNum(prev.n + 1)

\* the arguments of setValue: a value, or a function of the previous value
SetValueArgs ==
    {[isFunction |-> FALSE, v |-> v, f |-> "none"] : v \in JsonValues}
        \cup {[isFunction |-> TRUE, v |-> JsUndefined, f |-> f] : f \in Updaters}

\* value instanceof Function ? value(storedValue) : value
ValueToStore(arg) ==
    IF arg.isFunction THEN ApplyUpdater(arg.f, closureValue) ELSE arg.v

StoreAfterSetUnserialized(valueToStore) ==
    [store EXCEPT ![key] = Present(JsString(valueToStore))]

\* window.localStorage.setItem(key, JSON.stringify(valueToStore))
StoreAfterSet(valueToStore) ==
    [store EXCEPT ![key] = Present(JSONStringify(valueToStore))]

StoreAfterRemoveKept == store

\* window.localStorage.removeItem(key)
StoreAfterRemove == [store EXCEPT ![key] = Absent]

SetValueWriteFirst(arg, writeFails) ==
    /\ arg.isFunction =>
          /\ closureValue.tag = "number" /\ closureValue.n < MaxNum
          /\ storedValue.tag = "number"
          /\ chainLen < MaxChain
    /\ storedValue' = IF writeFails THEN storedValue ELSE ValueToStore(arg)
    /\ store' = IF writeFails THEN store ELSE StoreAfterSet(ValueToStore(arg))
    /\ lastOp' = IF writeFails THEN "setFailed" ELSE "set"
    /\ lastValue' = ValueToStore(arg)
    /\ chainBase' = IF arg.isFunction /\ chainLen = 0 THEN storedValue ELSE chainBase
    /\ chainLen' = IF arg.isFunction THEN chainLen + 1 ELSE 0
    /\ UNCHANGED <<key, initialValue, closureValue, readFailed>>
    /\ UNCHANGED notStorageVars

\* setValue(arg); writeFails: setItem throws (quota exceeded), which is caught
SetValue(arg, writeFails) ==
    /\ arg.isFunction =>
          /\ closureValue.tag = "number" /\ closureValue.n < MaxNum
          /\ storedValue.tag = "number"
          /\ chainLen < MaxChain
    /\ storedValue' = ValueToStore(arg)
    /\ store' = IF writeFails THEN store ELSE StoreAfterSet(ValueToStore(arg))
    /\ lastOp' = IF writeFails THEN "setFailed" ELSE "set"
    /\ lastValue' = ValueToStore(arg)
    /\ chainBase' = IF arg.isFunction /\ chainLen = 0 THEN storedValue ELSE chainBase
    /\ chainLen' = IF arg.isFunction THEN chainLen + 1 ELSE 0
    /\ UNCHANGED <<key, initialValue, closureValue, readFailed>>
    /\ UNCHANGED notStorageVars

RemoveValueKeepsMemory(removeFails) ==
    /\ storedValue' = storedValue
    /\ store' = IF removeFails THEN store ELSE StoreAfterRemove
    /\ lastOp' = IF removeFails THEN "removeFailed" ELSE "remove"
    /\ chainLen' = 0
    /\ UNCHANGED <<key, initialValue, closureValue, lastValue, readFailed, chainBase>>
    /\ UNCHANGED notStorageVars

\* removeValue(); removeFails: removeItem throws, which is caught
RemoveValue(removeFails) ==
    /\ storedValue' = initialValue
    /\ store' = IF removeFails THEN store ELSE StoreAfterRemove
    /\ lastOp' = IF removeFails THEN "removeFailed" ELSE "remove"
    /\ chainLen' = 0
    /\ UNCHANGED <<key, initialValue, closureValue, lastValue, readFailed, chainBase>>
    /\ UNCHANGED notStorageVars

\* the consumer re-renders: setValue is memoised on [key, storedValue]
StorageRender ==
    /\ closureValue' = storedValue
    /\ UNCHANGED <<store, key, initialValue, storedValue, lastOp, lastValue,
                   readFailed, chainBase, chainLen>>
    /\ UNCHANGED notStorageVars

\* a reload: a new instance of the hook on the same store and key
Reload(default, readFails) ==
    /\ initialValue' = default
    /\ readFailed' = readFails
    /\ storedValue' = ReadInitial(store[key], default, readFails)
    /\ closureValue' = storedValue'
    /\ lastOp' = IF lastOp = "set" THEN "reloadAfterSet" ELSE "reload"
    /\ chainLen' = 0
    /\ UNCHANGED <<store, key, lastValue, chainBase>>
    /\ UNCHANGED notStorageVars

\* the first instance, created on a store that may hold anything under its key
StorageInit ==
    /\ key \in Keys
    /\ store \in {s \in [Keys -> InitialEntries] : \A k \in Keys \ {key} : s[k] = OtherEntry}
    /\ initialValue \in Defaults
    /\ readFailed \in BOOLEAN
    /\ storedValue = ReadInitial(store[key], initialValue, readFailed)
    /\ closureValue = storedValue
    /\ lastOp = "create"
    /\ lastValue = JsUndefined
    /\ chainBase = JsUndefined
    /\ chainLen = 0

StorageNext ==
    \/ \E arg \in SetValueArgs, writeFails \in BOOLEAN : SetValue(arg, writeFails)
    \/ \E removeFails \in BOOLEAN : RemoveValue(removeFails)
    \/ StorageRender
    \/ \E default \in Defaults, readFails \in BOOLEAN : Reload(default, readFails)

(***************************************************************************)
(* NotificationProvider (src/src/contexts/NotificationContext.tsx)         *)
(***************************************************************************)
MaxAdds == 2
MaxTime == 1

\* duration: number = 5000
DefaultDuration == 5000

Messages == {"x"}

\* the duration argument: left out (undefined), or a number of ms
Omitted == [given |-> FALSE, ms |-> 0]
Ms(n) == [given |-> TRUE, ms |-> n]

\* the calls a consumer makes: addNotification(m), addNotification(m, 'error', 0),
\* success(m, 100) (which is addNotification(m, 'success', 100)) and info(m) (which
\* is addNotification(m, 'info', undefined)); "omitted" is a type left out
AddCalls ==
    {[typeArg |-> "omitted", durationArg |-> Omitted],
     [typeArg |-> "error", durationArg |-> Ms(0)],
     [typeArg |-> "success", durationArg |-> Ms(100)],
     [typeArg |-> "info", durationArg |-> Omitted]}

\* what Math.random().toString(36).substr(2, 9) may yield
RandomParts == {"k3x9", "0zq7"}

\* generateId(): `${Date.now()}-${Math.random().toString(36).substr(2, 9)}`
GenerateId(random) == [t |-> now, r |-> random]

\* an id no addNotification call returned
UnknownId == [t |-> 0, r |-> "none"]

\* type: NotificationType = 'info'
TypeOf(typeArg) == IF typeArg = "omitted" THEN "info" ELSE typeArg

\* duration: number = 5000 (the default stands in for undefined)
DurationOf(durationArg) == IF durationArg.given THEN durationArg.ms ELSE DefaultDuration

AppendNotificationFirst(prev, notification) == <<notification>> \o prev

\* prev => [...prev, notification]
AppendNotification(prev, notification) == Append(prev, notification)

RemoveFromSplice(prev, id) ==
    IF \E i \in 1..Len(prev) : prev[i].id = id
    THEN LET Keep(e) == e.id # id IN SelectSeq(prev, Keep)
    ELSE SubSeq(prev, 1, Len(prev) - 1)

\* prev => prev.filter(notification => notification.id !== id)
RemoveFrom(prev, id) ==
    LET Keep(e) == e.id # id IN SelectSeq(prev, Keep)

\* the seq numbers of the queued notifications that carry id
SeqsWithId(id) ==
    {notifications[i].seq : i \in {j \in 1..Len(notifications) : notifications[j].id = id}}

\* if (duration > 0) setTimeout(...)
Schedules(duration) == duration > 0

\* addNotification(message, type, duration); the success / error / warning / info
\* helpers of useNotificationActions pass their type and the duration they got
AddNotification(message, typeArg, durationArg, random) ==
    /\ Len(nAdded) < MaxAdds
    /\ LET id == GenerateId(random)
           notification == [id |-> id,
                            message |-> message,
                            type |-> TypeOf(typeArg),
                            duration |-> DurationOf(durationArg),
                            timestamp |-> now,
                            seq |-> Len(nAdded) + 1]
       IN /\ notifications' = AppendNotification(notifications, notification)
          /\ nTimers' = IF Schedules(notification.duration)
                        THEN nTimers \cup {[id |-> id,
                                            due |-> now + notification.duration,
                                            seq |-> notification.seq]}
                        ELSE nTimers
          /\ nAdded' = Append(nAdded, notification)
          /\ nOp' = [op |-> "add", absent |-> FALSE, given |-> durationArg.given,
                     typeGiven |-> typeArg # "omitted"]
    /\ UNCHANGED <<now, nGone>>
    /\ UNCHANGED notNotifVars

\* removeNotification(id), called by a consumer
RemoveNotification(id) ==
    /\ notifications' = RemoveFrom(notifications, id)
    /\ nGone' = nGone \cup SeqsWithId(id)
    /\ nOp' = [op |-> "remove", absent |-> SeqsWithId(id) = {}, given |-> FALSE, typeGiven |-> FALSE]
    /\ UNCHANGED <<nTimers, now, nAdded>>
    /\ UNCHANGED notNotifVars

\* the setTimeout callback of an addNotification call runs: removeNotification(id)
TimerFires(timer) ==
    /\ timer \in nTimers
    /\ timer.due <= now
    /\ nTimers' = nTimers \ {timer}
    /\ notifications' = RemoveFrom(notifications, timer.id)
    /\ nGone' = nGone \cup SeqsWithId(timer.id)
    /\ nOp' = [op |-> "timer", absent |-> SeqsWithId(timer.id) = {}, given |-> FALSE, typeGiven |-> FALSE]
    /\ UNCHANGED <<now, nAdded>>
    /\ UNCHANGED notNotifVars

\* clearNotifications()
ClearNotifications ==
    /\ notifications' = <<>>
    /\ nGone' = nGone \cup {notifications[i].seq : i \in 1..Len(notifications)}
    /\ nOp' = [op |-> "clear", absent |-> FALSE, given |-> FALSE, typeGiven |-> FALSE]
    /\ UNCHANGED <<nTimers, now, nAdded>>
    /\ UNCHANGED notNotifVars

\* the due times of the pending timers
DueTimes == {timer.due : timer \in nTimers}

\* time passes: by one ms, or up to the next due time.  A due timer runs before
\* the clock moves on, so the clock never passes a pending timer.
NotificationTimePasses ==
    /\ \E next \in {now + 1} \cup DueTimes :
          /\ next > now
          /\ \A due \in DueTimes : next <= due
          /\ next = now + 1 => now < MaxTime
          /\ now' = next
    /\ UNCHANGED <<notifications, nTimers, nAdded, nGone, nOp>>
    /\ UNCHANGED notNotifVars

NoNotificationOp ==
    [op |-> "none", absent |-> FALSE, given |-> FALSE, typeGiven |-> FALSE]

\* useState<Notification[]>([]): the provider has just been created
NotificationInit ==
    /\ notifications = <<>>
    /\ nTimers = {}
    /\ now = 0
    /\ nAdded = <<>>
    /\ nGone = {}
    /\ nOp = NoNotificationOp

\* the ids a consumer may pass to removeNotification
RemoveArgs == {nAdded[i].id : i \in 1..Len(nAdded)} \cup {UnknownId}

NotificationNext ==
    \/ \E message \in Messages, call \in AddCalls, random \in RandomParts :
          AddNotification(message, call.typeArg, call.durationArg, random)
    \/ \E id \in RemoveArgs : RemoveNotification(id)
    \/ \E timer \in nTimers : TimerFires(timer)
    \/ ClearNotifications
    \/ NotificationTimePasses

(***************************************************************************)
(* useDebounce (hooks/useDebounce.ts)                                      *)
(***************************************************************************)

MaxRenders == 3
MaxClock == 4

\* the values and the delays (in ms) a component passes to the hook
Values == {"a", "b", "c"}
Delays == {1, 2}

\* setTimeout(() => { setDebouncedValue(value) }, delay), returning handle
SetTimeout(timers, value, delay, handle, clock) ==
    timers \cup {[value |-> value, due |-> clock + delay, seq |-> handle]}

ClearTimeoutKept(timers, handler) == timers

\* clearTimeout(handler)
ClearTimeout(timers, handler) == {timer \in timers : timer.seq # handler}

\* [value, delay]: the effect runs again when a dependency changed
DepsChanged(newValue, newDelay) == newValue # dValue \/ newDelay # dDelay

\* the component renders with (newValue, newDelay); when a dependency changed
\* the cleanup of the previous effect runs and then the effect
DebounceRender(newValue, newDelay) ==
    /\ dAttached
    /\ IF DepsChanged(newValue, newDelay)
       THEN /\ dScheduled < MaxRenders
            /\ dValue' = newValue
            /\ dDelay' = newDelay
            /\ dHandler' = dScheduled + 1
            /\ dScheduled' = dScheduled + 1
            /\ dTimers' = SetTimeout(ClearTimeout(dTimers, dHandler),
                                     newValue, newDelay, dScheduled + 1, dNow)
            /\ dSince' = IF newValue # dValue THEN dNow ELSE dSince
            /\ dSuperseded' = IF \E timer \in dTimers : timer.seq = dHandler
                              THEN dSuperseded + 1 ELSE dSuperseded
       ELSE UNCHANGED <<dValue, dDelay, dHandler, dScheduled, dTimers, dSince,
                        dSuperseded>>
    /\ dOp' = [op |-> "render", from |-> debouncedValue, skipped |-> 0]
    /\ UNCHANGED <<debouncedValue, dAttached, dNow, dDetach>>
    /\ UNCHANGED notDebounceVars

\* a timer runs its callback: setDebouncedValue(value)
DebounceTimerFires(timer) ==
    /\ timer \in dTimers
    /\ timer.due <= dNow
    /\ debouncedValue' = timer.value
    /\ dTimers' = dTimers \ {timer}
    /\ dSuperseded' = 0
    /\ dOp' = [op |-> "emit", from |-> debouncedValue, skipped |-> dSuperseded]
    /\ UNCHANGED <<dValue, dDelay, dHandler, dAttached, dNow, dScheduled, dSince,
                   dDetach>>
    /\ UNCHANGED notDebounceVars

\* what is pending when the component unmounts
PendingAtDetach ==
    IF dTimers = {} THEN [pending |-> FALSE, due |-> 0]
    ELSE [pending |-> TRUE, due |-> (CHOOSE timer \in dTimers : TRUE).due]

DebounceUnmountNoCleanup ==
    /\ dAttached
    /\ dAttached' = FALSE
    /\ dDetach' = PendingAtDetach
    /\ dOp' = [op |-> "unmount", from |-> debouncedValue, skipped |-> 0]
    /\ UNCHANGED <<dValue, dDelay, debouncedValue, dTimers, dHandler, dNow,
                   dScheduled, dSince, dSuperseded>>
    /\ UNCHANGED notDebounceVars

\* the component unmounts: the cleanup of the last effect runs
DebounceUnmount ==
    /\ dAttached
    /\ dAttached' = FALSE
    /\ dTimers' = ClearTimeout(dTimers, dHandler)
    /\ dDetach' = PendingAtDetach
    /\ dOp' = [op |-> "unmount", from |-> debouncedValue, skipped |-> 0]
    /\ UNCHANGED <<dValue, dDelay, debouncedValue, dHandler, dNow, dScheduled,
                   dSince, dSuperseded>>
    /\ UNCHANGED notDebounceVars

\* one ms passes; a due timer may run late, never early
DebounceTimePasses ==
    /\ dNow < MaxClock
    /\ dNow' = dNow + 1
    /\ UNCHANGED <<dValue, dDelay, debouncedValue, dTimers, dHandler, dAttached,
                   dScheduled, dSince, dSuperseded, dDetach, dOp>>
    /\ UNCHANGED notDebounceVars

\* the first render, useState(value), and the first run of the effect
DebounceMount(value, delay) ==
    /\ dValue = value
    /\ dDelay = delay
    /\ debouncedValue = value
    /\ dTimers = SetTimeout({}, value, delay, 1, 0)
    /\ dHandler = 1
    /\ dAttached = TRUE
    /\ dNow = 0
    /\ dScheduled = 1
    /\ dSince = 0
    /\ dSuperseded = 0
    /\ dDetach = [pending |-> FALSE, due |-> 0]
    /\ dOp = [op |-> "mount", from |-> value, skipped |-> 0]

DebounceInit == \E value \in Values, delay \in Delays : DebounceMount(value, delay)

DebounceNext ==
    \/ \E newValue \in Values, newDelay \in Delays : DebounceRender(newValue, newDelay)
    \/ \E timer \in dTimers : DebounceTimerFires(timer)
    \/ DebounceUnmount
    \/ DebounceTimePasses

(***************************************************************************)
(* useDebouncedCallback (hooks/useDebounce.ts)                             *)
(***************************************************************************)

MaxInvokes == 3

\* the callbacks a component passes to the hook and the arguments a caller
\* passes to the returned function
Callbacks == {"f", "g"}
Args == {"p", "q"}

ClearTimeoutRefKept(timers, ref) == timers

\* if (timeoutRef.current) { clearTimeout(timeoutRef.current) }
ClearTimeoutRef(timers, ref) ==
    IF ref # 0 THEN {timer \in timers : timer.seq # ref} ELSE timers

\* the function of the last render is invoked with args
CallbackInvoke(args) ==
    /\ cAttached
    /\ cInvokes < MaxInvokes
    /\ LET handle == cInvokes + 1
           timer == [seq |-> handle, callback |-> cCallback, args |-> args,
                     due |-> cNow + cDelay]
       IN /\ cTimers' = ClearTimeoutRef(cTimers, timeoutRef) \cup {timer}
          /\ timeoutRef' = handle
          /\ cInvokes' = handle
          /\ cLast' = timer
    /\ UNCHANGED <<cCallback, cDelay, cAttached, cNow, cExecuted, cLastExec>>
    /\ UNCHANGED notCallbackVars

\* the component renders with another callback or delay: useCallback returns a
\* new function, timeoutRef is the same ref
CallbackRender(newCallback, newDelay) ==
    /\ cAttached
    /\ newCallback # cCallback \/ newDelay # cDelay
    /\ cCallback' = newCallback
    /\ cDelay' = newDelay
    /\ UNCHANGED <<timeoutRef, cTimers, cAttached, cNow, cInvokes, cLast,
                   cExecuted, cLastExec>>
    /\ UNCHANGED notCallbackVars

\* a timer runs: callback(...args), with the callback and args of its invocation
CallbackTimerFires(timer) ==
    /\ timer \in cTimers
    /\ timer.due <= cNow
    /\ cTimers' = cTimers \ {timer}
    /\ cExecuted' = Append(cExecuted, timer.seq)
    /\ cLastExec' = [seq |-> timer.seq, callback |-> timer.callback,
                     args |-> timer.args, attached |-> cAttached]
    /\ UNCHANGED <<cCallback, cDelay, timeoutRef, cAttached, cNow, cInvokes, cLast>>
    /\ UNCHANGED notCallbackVars

\* the component unmounts: the hook has no effect, so nothing of it runs
CallbackUnmount ==
    /\ cAttached
    /\ cAttached' = FALSE
    /\ UNCHANGED <<cCallback, cDelay, timeoutRef, cTimers, cNow, cInvokes, cLast,
                   cExecuted, cLastExec>>
    /\ UNCHANGED notCallbackVars

\* one ms passes; a due timer may run late, never early
CallbackTimePasses ==
    /\ cNow < MaxClock
    /\ cNow' = cNow + 1
    /\ UNCHANGED <<cCallback, cDelay, timeoutRef, cTimers, cAttached, cInvokes,
                   cLast, cExecuted, cLastExec>>
    /\ UNCHANGED notCallbackVars

NoInvocation == [seq |-> 0, callback |-> "f", args |-> "p", due |-> 0]
NoExecution == [seq |-> 0, callback |-> "f", args |-> "p", attached |-> TRUE]

\* the first render: useRef(null), no invocation yet
CallbackMount(callback, delay) ==
    /\ cCallback = callback
    /\ cDelay = delay
    /\ timeoutRef = 0
    /\ cTimers = {}
    /\ cAttached = TRUE
    /\ cNow = 0
    /\ cInvokes = 0
    /\ cLast = NoInvocation
    /\ cExecuted = <<>>
    /\ cLastExec = NoExecution

CallbackInit == \E delay \in Delays : CallbackMount("f", delay)

CallbackNext ==
    \/ \E args \in Args : CallbackInvoke(args)
    \/ \E newCallback \in Callbacks, newDelay \in Delays :
          CallbackRender(newCallback, newDelay)
    \/ \E timer \in cTimers : CallbackTimerFires(timer)
    \/ CallbackUnmount
    \/ CallbackTimePasses

(***************************************************************************)
(* useThrottle (hooks/useDebounce.ts)                                      *)
(***************************************************************************)

\* Date.now() at the first render, in ms
CreationTimes == {0, 1}

InitialLastRunLongAgo(created) == created - 1000

\* useRef<number>(Date.now())
InitialLastRun(created) == created

ThrottleAllowsAfter(clock, lastRun, delay) == clock - lastRun > delay

\* now - lastRunRef.current >= delay
ThrottleAllows(clock, lastRun, delay) == clock - lastRun >= delay

\* the function of the last render is invoked with args
ThrottleInvoke(args) ==
    /\ tInvokes < MaxInvokes
    /\ tInvokes' = tInvokes + 1
    /\ IF ThrottleAllows(tNow, lastRunRef, tDelay)
       THEN /\ lastRunRef' = tNow
            /\ tRuns' = tRuns + 1
            /\ tLastExec' = tNow
            /\ tOp' = [op |-> "run", callback |-> tCallback, args |-> args]
       ELSE /\ tOp' = [op |-> "drop", callback |-> tCallback, args |-> args]
            /\ UNCHANGED <<lastRunRef, tRuns, tLastExec>>
    /\ UNCHANGED <<tCallback, tDelay, tNow, tCreated>>
    /\ UNCHANGED notThrottleVars

\* the component renders with another callback or delay: useCallback returns a
\* new function, useRef keeps lastRunRef
ThrottleRender(newCallback, newDelay) ==
    /\ newCallback # tCallback \/ newDelay # tDelay
    /\ tCallback' = newCallback
    /\ tDelay' = newDelay
    /\ tOp' = [op |-> "render", callback |-> newCallback, args |-> "p"]
    /\ UNCHANGED <<lastRunRef, tNow, tCreated, tInvokes, tRuns, tLastExec>>
    /\ UNCHANGED notThrottleVars

\* one ms passes
ThrottleTimePasses ==
    /\ tNow < tCreated + MaxClock
    /\ tNow' = tNow + 1
    /\ UNCHANGED <<tCallback, tDelay, lastRunRef, tCreated, tInvokes, tRuns,
                   tLastExec, tOp>>
    /\ UNCHANGED notThrottleVars

\* the first render at time created
ThrottleMount(callback, delay, created) ==
    /\ tCallback = callback
    /\ tDelay = delay
    /\ lastRunRef = InitialLastRun(created)
    /\ tNow = created
    /\ tCreated = created
    /\ tInvokes = 0
    /\ tRuns = 0
    /\ tLastExec = created
    /\ tOp = [op |-> "mount", callback |-> callback, args |-> "p"]

ThrottleInit ==
    \E delay \in Delays, created \in CreationTimes : ThrottleMount("f", delay, created)

ThrottleNext ==
    \/ \E args \in Args : ThrottleInvoke(args)
    \/ \E newCallback \in Callbacks, newDelay \in Delays :
          ThrottleRender(newCallback, newDelay)
    \/ ThrottleTimePasses

(***************************************************************************)
(* FormProvider (contexts/FormContext)                                     *)
(***************************************************************************)

FieldNames == {"a", "b"}

\* the fields a validator reports on and a consumer marks as touched
ValidatedNames == {"a"}

\* the values a consumer stores in a field
FieldValues == {JsNum(1), JsStr(<<"1">>)}

\* {}
EmptyObject == [k \in {} |-> JsUndefined]

\* { [name]: value }
Single(name, value) == [k \in {name} |-> value]

\* the objects passed as initialData, to resetForm and to updateFields
Snapshots == {EmptyObject, Single("a", JsNum(1))}

\* obj[name]
Get(obj, name) == IF name \in DOMAIN obj THEN obj[name] ELSE JsUndefined

\* { ...prev, ...updates }
Spread(prev, updates) ==
    [k \in DOMAIN prev \cup DOMAIN updates |->
        IF k \in DOMAIN updates THEN updates[k] ELSE prev[k]]

\* a === b, for values that are not objects
StrictEquals(a, b) == a.tag = b.tag /\ a.n = b.n /\ a.s = b.s

FormOp(op) ==
    [op |-> op, name |-> "a", value |-> JsUndefined, snapshot |-> EmptyObject,
     given |-> FALSE, result |-> FALSE, batched |-> FALSE]

\* the last operation was an update of the fields that no render has followed
Unrendered == fOp.op \in {"updateField", "updateFields"}

UpdateBaseRendered(prev, rendered) == rendered

\* setFormData(prev => ...): the updater gets the value the queued updates made
UpdateBase(prev, rendered) == prev

\* updateField(name, value)
UpdateField(name, value) ==
    /\ formData' = Spread(UpdateBase(formData, fRendered), Single(name, value))
    /\ fOp' = [FormOp("updateField") EXCEPT !.name = name, !.value = value,
                                            !.batched = Unrendered]
    /\ UNCHANGED <<errors, touched, isSubmitting, fInitialData, fRendered, fOriginal>>
    /\ UNCHANGED notFormVars

\* updateFields(updates)
UpdateFields(updates) ==
    /\ formData' = Spread(UpdateBase(formData, fRendered), updates)
    /\ fOp' = [FormOp("updateFields") EXCEPT !.snapshot = updates,
                                             !.batched = Unrendered]
    /\ UNCHANGED <<errors, touched, isSubmitting, fInitialData, fRendered, fOriginal>>
    /\ UNCHANGED notFormVars

\* setFieldError(name, error)
SetFieldError(name, error) ==
    /\ errors' = Spread(errors, Single(name, error))
    /\ fOp' = FormOp("setFieldError")
    /\ UNCHANGED <<formData, touched, isSubmitting, fInitialData, fRendered, fOriginal>>
    /\ UNCHANGED notFormVars

\* setErrors(newErrors)
SetErrors(newErrors) ==
    /\ errors' = newErrors
    /\ fOp' = FormOp("setErrors")
    /\ UNCHANGED <<formData, touched, isSubmitting, fInitialData, fRendered, fOriginal>>
    /\ UNCHANGED notFormVars

\* markAsTouched(name)
MarkAsTouched(name) ==
    /\ touched' = touched \cup {name}
    /\ fOp' = FormOp("markAsTouched")
    /\ UNCHANGED <<formData, errors, isSubmitting, fInitialData, fRendered, fOriginal>>
    /\ UNCHANGED notFormVars

\* markAsUntouched(name)
MarkAsUntouched(name) ==
    /\ touched' = touched \ {name}
    /\ fOp' = FormOp("markAsUntouched")
    /\ UNCHANGED <<formData, errors, isSubmitting, fInitialData, fRendered, fOriginal>>
    /\ UNCHANGED notFormVars

\* setIsSubmitting(value)
SetIsSubmitting(value) ==
    /\ isSubmitting' = value
    /\ fOp' = FormOp("setIsSubmitting")
    /\ UNCHANGED <<formData, errors, touched, fInitialData, fRendered, fOriginal>>
    /\ UNCHANGED notFormVars

\* newInitialData || initialData: an object is truthy, undefined is not
ResetData(given, snapshot, initial) == IF given THEN snapshot ELSE initial

\* resetForm(newInitialData?), the function of the last render
ResetForm(given, snapshot) ==
    /\ formData' = ResetData(given, snapshot, fInitialData)
    /\ errors' = EmptyObject
    /\ touched' = {}
    /\ isSubmitting' = FALSE
    /\ fOp' = [FormOp("resetForm") EXCEPT !.given = given, !.snapshot = snapshot]
    /\ UNCHANGED <<fInitialData, fRendered, fOriginal>>
    /\ UNCHANGED notFormVars

IsDefinedAlways(baseline) == TRUE

\* initialValue !== undefined
IsDefined(baseline) == ~StrictEquals(baseline, JsUndefined)

\* isFieldDirty(name, initialValue?), the function of the last render
IsFieldDirty(name, baseline) ==
    LET currentValue == Get(fRendered, name)
    IN IF IsDefined(baseline)
       THEN ~StrictEquals(currentValue, baseline)
       ELSE FALSE

\* a consumer calls isFieldDirty(name, initialValue)
CallIsFieldDirty(name, baseline) ==
    /\ fOp' = [FormOp("isFieldDirty") EXCEPT !.name = name, !.value = baseline,
                                             !.result = IsFieldDirty(name, baseline)]
    /\ UNCHANGED <<formData, errors, touched, isSubmitting, fInitialData, fRendered,
                   fOriginal>>
    /\ UNCHANGED notFormVars

\* the provider renders again with the initialData prop its parent passes;
\* useState keeps formData, the context value is built anew
FormRender(initialData) ==
    /\ fRendered' = formData
    /\ fInitialData' = initialData
    /\ fOp' = FormOp("render")
    /\ UNCHANGED <<formData, errors, touched, isSubmitting, fOriginal>>
    /\ UNCHANGED notFormVars

\* the first render: useState(initialData), no errors, nothing touched
FormMount(initialData) ==
    /\ formData = initialData
    /\ errors = EmptyObject
    /\ touched = {}
    /\ isSubmitting = FALSE
    /\ fInitialData = initialData
    /\ fRendered = initialData
    /\ fOriginal = initialData
    /\ fOp = FormOp("mount")

FormInit == \E initialData \in Snapshots : FormMount(initialData)

\* the errors a validator reports for a field, and the error maps it sets
ErrorValues == {JsStr(<<"e">>), JsUndefined}
ErrorMaps == {EmptyObject, Single("a", JsStr(<<"e">>))}

\* the initialValue arguments of isFieldDirty
DirtyArgs == FieldValues \cup {JsUndefined}

FormNext ==
    \/ \E name \in FieldNames, value \in FieldValues : UpdateField(name, value)
    \/ \E updates \in Snapshots : UpdateFields(updates)
    \/ \E name \in ValidatedNames, error \in ErrorValues : SetFieldError(name, error)
    \/ \E newErrors \in ErrorMaps : SetErrors(newErrors)
    \/ \E name \in ValidatedNames : MarkAsTouched(name)
    \/ \E name \in ValidatedNames : MarkAsUntouched(name)
    \/ \E value \in BOOLEAN : SetIsSubmitting(value)
    \/ ResetForm(FALSE, EmptyObject)
    \/ \E snapshot \in Snapshots : ResetForm(TRUE, snapshot)
    \/ \E name \in FieldNames, baseline \in DirtyArgs :
          CallIsFieldDirty(name, baseline)
    \/ \E initialData \in Snapshots : FormRender(initialData)

(***************************************************************************)
(* ThemeProvider (contexts/ThemeContext)                                   *)
(***************************************************************************)

\* what localStorage may hold under 'app-theme' when the provider is created
NoTheme == [present |-> FALSE, text |-> ""]
StoredTheme(text) == [present |-> TRUE, text |-> text]
StoredThemes == {NoTheme, StoredTheme("light"), StoredTheme("dark"), StoredTheme("auto")}

\* window.matchMedia is missing ("none") or reports the preferred scheme
MediaPreferences == {"none", "dark", "light"}

GetInitialThemeFromMedia(stored, media) ==
    IF media # "none" THEN media ELSE "light"

\* getInitialTheme(), for a store that can be read
GetInitialTheme(stored, media) ==
    IF stored.present /\ (stored.text = "light" \/ stored.text = "dark")
    THEN stored.text
    ELSE IF media # "none"
         THEN (IF media = "dark" THEN "dark" ELSE "light")
         ELSE "light"

\* toggleTheme(): setThemeState(prev => prev === 'light' ? 'dark' : 'light')
ToggleTheme ==
    /\ thMounted
    /\ theme' = IF theme = "light" THEN "dark" ELSE "light"
    /\ thOp' = "toggleTheme"
    /\ UNCHANGED <<thStore, darkClass, thEffectFor, thMounted, thMedia, thInitial,
                   thInitStore>>
    /\ UNCHANGED notThemeVars

\* setTheme(newTheme)
SetTheme(newTheme) ==
    /\ thMounted
    /\ theme' = newTheme
    /\ thOp' = "setTheme"
    /\ UNCHANGED <<thStore, darkClass, thEffectFor, thMounted, thMedia, thInitial,
                   thInitStore>>
    /\ UNCHANGED notThemeVars

\* the provider renders and, theme being another than at the last run, the
\* effect runs: localStorage.setItem, then classList.add or remove.  setItem
\* may throw; nothing catches it, the rest of the effect is skipped and React
\* unmounts the tree.
ThemeEffect(writeFails) ==
    /\ thMounted
    /\ theme # thEffectFor
    /\ thEffectFor' = theme
    /\ IF writeFails
       THEN /\ thMounted' = FALSE
            /\ thOp' = "effectThrew"
            /\ UNCHANGED <<thStore, darkClass>>
       ELSE /\ thStore' = StoredTheme(theme)
            /\ darkClass' = (theme = "dark")
            /\ thOp' = "effect"
            /\ UNCHANGED thMounted
    /\ UNCHANGED <<theme, thMedia, thInitial, thInitStore>>
    /\ UNCHANGED notThemeVars

\* the first render: useState(() => getInitialTheme()); the effect has not run
ThemeMount(stored, media, hasClass) ==
    /\ theme = GetInitialTheme(stored, media)
    /\ thStore = stored
    /\ darkClass = hasClass
    /\ thEffectFor = "none"
    /\ thMounted = TRUE
    /\ thMedia = media
    /\ thInitial = GetInitialTheme(stored, media)
    /\ thInitStore = stored
    /\ thOp = "mount"

ThemeInit ==
    \E stored \in StoredThemes, media \in MediaPreferences, hasClass \in BOOLEAN :
        ThemeMount(stored, media, hasClass)

ThemeNext ==
    \/ ToggleTheme
    \/ \E newTheme \in {"light", "dark"} : SetTheme(newTheme)
    \/ \E writeFails \in BOOLEAN : ThemeEffect(writeFails)

(***************************************************************************)
(* Modal (components/Modal.tsx)                                            *)
(***************************************************************************)

\* the Modal instances of the page and the onClose functions their parents pass
Modals == {"m1", "m2"}
OnCloseProps == {"close1", "close2"}

\* an instance that is not mounted
NoModal == [mounted |-> FALSE, isOpen |-> FALSE, onClose |-> "close1",
            listener |-> "none"]

\* handleEscape is registered for keydown by the effect of instance m
Listening(m) == modals[m].listener # "none"

\* the cleanup: document.body.style.overflow = 'unset'
OverflowAfterCleanup(before) == "unset"

\* the overflow after the cleanup of the previous effect, if it returned one
CleanedUp(m) ==
    IF Listening(m) THEN OverflowAfterCleanup(bodyOverflow) ELSE bodyOverflow

\* instance m renders with the props (isOpen, onClose): on the first render,
\* or when isOpen or handleEscape (memoised on onClose) changed, the cleanup of
\* the previous effect runs and then the effect
ModalRender(m, isOpen, onClose) ==
    /\ ~modals[m].mounted \/ isOpen # modals[m].isOpen \/ onClose # modals[m].onClose
    /\ modals' = [modals EXCEPT ![m] =
                     [mounted |-> TRUE, isOpen |-> isOpen, onClose |-> onClose,
                      listener |-> IF isOpen THEN onClose ELSE "none"]]
    /\ bodyOverflow' = IF isOpen THEN "hidden" ELSE CleanedUp(m)
    /\ mOp' = [op |-> IF isOpen THEN "open" ELSE "close", modal |-> m, called |-> {}]
    /\ UNCHANGED notModalVars

\* instance m unmounts: the cleanup of its effect runs
ModalUnmount(m) ==
    /\ modals[m].mounted
    /\ modals' = [modals EXCEPT ![m] = NoModal]
    /\ bodyOverflow' = CleanedUp(m)
    /\ mOp' = [op |-> "unmount", modal |-> m, called |-> {}]
    /\ UNCHANGED notModalVars

\* the user presses Escape: every registered handleEscape calls its onClose
KeydownEscape ==
    /\ mOp' = [op |-> "escape", modal |-> "m1",
               called |-> {[modal |-> m, onClose |-> modals[m].listener] :
                              m \in {i \in Modals : Listening(i)}}]
    /\ UNCHANGED <<modals, bodyOverflow>>
    /\ UNCHANGED notModalVars

\* the page before any Modal is mounted; the body has its own overflow style
ModalStart(overflow) ==
    /\ modals = [m \in Modals |-> NoModal]
    /\ bodyOverflow = overflow
    /\ mOp = [op |-> "none", modal |-> "m1", called |-> {}]

ModalInit == \E overflow \in {"", "auto"} : ModalStart(overflow)

ModalNext ==
    \/ \E m \in Modals, isOpen \in BOOLEAN, onClose \in OnCloseProps :
          ModalRender(m, isOpen, onClose)
    \/ \E m \in Modals : ModalUnmount(m)
    \/ KeydownEscape

(***************************************************************************)
(* What a call of a hook operation hands back when the environment fails   *)
(***************************************************************************)

\* what may fail under a call: localStorage.getItem, setItem or removeItem
\* throws, JSON.parse throws, the promise of the async function rejects
Faults == {"none", "read", "write", "remove", "parse", "async"}

\* a statement that fails under fault `fails`, inside a try block or not
Step(fails, inTry) == [fails |-> fails, inTry |-> inTry]

\* an operation: the accessor it calls first ("none": no accessor), whether it
\* is an async function, and its statements that can fail, in order
Operation(hook, op, accessor, isAsync, steps) ==
    [hook |-> hook, op |-> op, accessor |-> accessor, isAsync |-> isAsync,
     steps |-> steps]

\* useLocalStorage (StateManagementDemo.tsx:326-386)
StorageOperations ==
    {Operation("useLocalStorage", "read", "none", FALSE,
               <<Step("read", TRUE), Step("parse", TRUE)>>),
     Operation("useLocalStorage", "setValue", "none", FALSE,
               <<Step("write", TRUE)>>),
     Operation("useLocalStorage", "removeValue", "none", FALSE,
               <<Step("remove", TRUE)>>)}

\* useAsync and useFetch (useAsync.ts:39-63, 90-113)
AsyncOperations ==
    {Operation("useAsync", "execute", "none", TRUE, <<Step("async", TRUE)>>),
     Operation("useFetch", "refetch", "none", TRUE, <<Step("async", TRUE)>>)}

\* useLocalCache (useToggle.ts:324-381): loadData reads the store before its
\* try blocks; invalidate removes outside any try and does not await loadData
CacheOperations ==
    {Operation("useLocalCache", "refetch", "none", TRUE,
               <<Step("read", FALSE), Step("parse", TRUE), Step("async", TRUE),
                 Step("write", TRUE)>>),
     Operation("useLocalCache", "invalidate", "none", FALSE,
               <<Step("remove", FALSE)>>)}

\* the context accessors and the hooks built on them
AccessorOperations ==
    {Operation("useTheme", "call", "useTheme", FALSE, <<>>),
     Operation("useNotification", "call", "useNotification", FALSE, <<>>),
     Operation("useForm", "call", "useForm", FALSE, <<>>),
     Operation("useFormField", "call", "useForm", FALSE, <<>>),
     Operation("useNotificationActions", "call", "useNotification", FALSE, <<>>)}

Operations ==
    StorageOperations \cup AsyncOperations \cup CacheOperations \cup AccessorOperations

\* the first statement of operation o that fails under fault (0: none does)
FailingStep(o, fault) ==
    IF \E i \in 1..Len(o.steps) : o.steps[i].fails = fault
    THEN CHOOSE i \in 1..Len(o.steps) :
            /\ o.steps[i].fails = fault
            /\ \A j \in 1..(i - 1) : o.steps[j].fails # fault
    ELSE 0

\* how the call ends for its caller: the accessor throws outside its provider;
\* a failure inside a try is caught; one outside leaves the function, as an
\* exception, or as a rejected promise when the function is async
Outcome(o, fault, inProvider) ==
    IF o.accessor # "none" /\ ~inProvider
    THEN [ends |-> "throws", by |-> o.accessor]
    ELSE IF FailingStep(o, fault) = 0 \/ o.steps[FailingStep(o, fault)].inTry
         THEN [ends |-> "returns", by |-> "none"]
         ELSE [ends |-> IF o.isAsync THEN "rejects" ELSE "throws", by |-> o.hook]

\* a component calls operation o while the environment has the fault
HookCall(o, fault, inProvider) ==
    /\ bCall' = [hook |-> o.hook, op |-> o.op, fault |-> fault,
                 inProvider |-> inProvider,
                 outcome |-> Outcome(o, fault, inProvider)]
    /\ UNCHANGED notBoundaryVars

NoCall ==
    [hook |-> "none", op |-> "none", fault |-> "none", inProvider |-> TRUE,
     outcome |-> [ends |-> "returns", by |-> "none"]]

BoundaryInit == bCall = NoCall

BoundaryNext ==
    \E o \in Operations, fault \in Faults, inProvider \in BOOLEAN :
        HookCall(o, fault, inProvider)

(***************************************************************************)
(* Specifications: one hook runs, the other hooks are not in use           *)
(***************************************************************************)
AsyncUnused ==
    /\ state = IdleState
    /\ isMountedRef = TRUE
    /\ immediate = FALSE
    /\ attached = FALSE
    /\ nCalls = 0
    /\ pending = {}
    /\ outcome = [c \in 1..MaxCalls |-> NoOutcome]
    /\ concurrent = {}
    /\ autoExecs = 0
    /\ createdImmediate = FALSE
    /\ immediateChanged = FALSE
    /\ pendingAtDetach = {}

StorageUnused ==
    /\ store = [k \in Keys |-> Absent]
    /\ key = "n"
    /\ initialValue = JsNull
    /\ storedValue = JsNull
    /\ closureValue = JsNull
    /\ lastOp = "unused"
    /\ lastValue = JsUndefined
    /\ readFailed = FALSE
    /\ chainBase = JsUndefined
    /\ chainLen = 0

NotificationUnused == NotificationInit

DebounceUnused ==
    /\ dValue = "a"
    /\ dDelay = 1
    /\ debouncedValue = "a"
    /\ dTimers = {}
    /\ dHandler = 0
    /\ dAttached = FALSE
    /\ dNow = 0
    /\ dScheduled = 0
    /\ dSince = 0
    /\ dSuperseded = 0
    /\ dDetach = [pending |-> FALSE, due |-> 0]
    /\ dOp = [op |-> "none", from |-> "a", skipped |-> 0]

CallbackUnused ==
    /\ cCallback = "f"
    /\ cDelay = 1
    /\ timeoutRef = 0
    /\ cTimers = {}
    /\ cAttached = FALSE
    /\ cNow = 0
    /\ cInvokes = 0
    /\ cLast = NoInvocation
    /\ cExecuted = <<>>
    /\ cLastExec = NoExecution

OthersUnused == DebounceUnused /\ CallbackUnused

ThrottleUnused ==
    /\ tCallback = "f"
    /\ tDelay = 1
    /\ lastRunRef = 0
    /\ tNow = 0
    /\ tCreated = 0
    /\ tInvokes = 0
    /\ tRuns = 0
    /\ tLastExec = 0
    /\ tOp = [op |-> "none", callback |-> "f", args |-> "p"]

FormUnused ==
    /\ formData = EmptyObject
    /\ errors = EmptyObject
    /\ touched = {}
    /\ isSubmitting = FALSE
    /\ fInitialData = EmptyObject
    /\ fRendered = EmptyObject
    /\ fOriginal = EmptyObject
    /\ fOp = FormOp("none")

ThemeUnused ==
    /\ theme = "light"
    /\ thStore = NoTheme
    /\ darkClass = FALSE
    /\ thEffectFor = "none"
    /\ thMounted = FALSE
    /\ thMedia = "none"
    /\ thInitial = "light"
    /\ thInitStore = NoTheme
    /\ thOp = "none"

ModalUnused == ModalStart("")

BoundaryUnused == BoundaryInit

LaterUnused ==
    ThrottleUnused /\ FormUnused /\ ThemeUnused /\ ModalUnused /\ BoundaryUnused
EarlierUnused == AsyncUnused /\ StorageUnused /\ NotificationUnused /\ OthersUnused

AsyncSpecInit ==
    AsyncInit /\ StorageUnused /\ NotificationUnused /\ OthersUnused /\ LaterUnused
StorageSpecInit ==
    StorageInit /\ AsyncUnused /\ NotificationUnused /\ OthersUnused /\ LaterUnused
NotificationSpecInit ==
    NotificationInit /\ AsyncUnused /\ StorageUnused /\ OthersUnused /\ LaterUnused
DebounceSpecInit ==
    /\ DebounceInit /\ AsyncUnused /\ StorageUnused /\ NotificationUnused
    /\ CallbackUnused /\ LaterUnused
CallbackSpecInit ==
    /\ CallbackInit /\ AsyncUnused /\ StorageUnused /\ NotificationUnused
    /\ DebounceUnused /\ LaterUnused
ThrottleSpecInit ==
    /\ ThrottleInit /\ EarlierUnused
    /\ FormUnused /\ ThemeUnused /\ ModalUnused /\ BoundaryUnused
FormSpecInit ==
    /\ FormInit /\ EarlierUnused
    /\ ThrottleUnused /\ ThemeUnused /\ ModalUnused /\ BoundaryUnused
ThemeSpecInit ==
    /\ ThemeInit /\ EarlierUnused
    /\ ThrottleUnused /\ FormUnused /\ ModalUnused /\ BoundaryUnused
ModalSpecInit ==
    /\ ModalInit /\ EarlierUnused
    /\ ThrottleUnused /\ FormUnused /\ ThemeUnused /\ BoundaryUnused
BoundarySpecInit ==
    /\ BoundaryInit /\ EarlierUnused
    /\ ThrottleUnused /\ FormUnused /\ ThemeUnused /\ ModalUnused

AsyncSpec == AsyncSpecInit /\ [][AsyncNext]_vars
StorageSpec == StorageSpecInit /\ [][StorageNext]_vars
NotificationSpec == NotificationSpecInit /\ [][NotificationNext]_vars
DebounceSpec == DebounceSpecInit /\ [][DebounceNext]_vars
CallbackSpec == CallbackSpecInit /\ [][CallbackNext]_vars
ThrottleSpec == ThrottleSpecInit /\ [][ThrottleNext]_vars
FormSpec == FormSpecInit /\ [][FormNext]_vars
ThemeSpec == ThemeSpecInit /\ [][ThemeNext]_vars
ModalSpec == ModalSpecInit /\ [][ModalNext]_vars
BoundarySpec == BoundarySpecInit /\ [][BoundaryNext]_vars

(***************************************************************************)
(* useAsync: properties                                                    *)
(***************************************************************************)
\* the state a call's settlement stands for
StateOfOutcome(o) ==
    IF o.kind = "resolved" THEN SuccessState(o.v) ELSE ErrorState(o.v)

\* a step that settles a call (Resolve or Reject)
SettleStep == pending' # pending /\ nCalls' = nCalls

\* C1: when execute() was called a second time while the first call was still
\* pending, then once both calls have settled the observable state is the outcome
\* of the second call (results were being applied: isMountedRef.current is true).
C1_SecondCallWins ==
    (nCalls = 2 /\ 2 \in concurrent /\ pending = {} /\ isMountedRef)
        => state = StateOfOutcome(outcome[2])

\* C2: a call that settles while the consumer is attached is applied: the step
\* that settles it leaves status success or error, whatever re-renders came before.
C2_SettleWhileAttachedApplies ==
    [][(attached /\ SettleStep) => state'.status \in {"success", "error"}]_vars

\* C3: once the consumer has detached, no step changes status, data or error.
C3_NoMutationAfterDetach ==
    [][(~attached) => state' = state]_vars

\* C3 witness: a call that was in flight at detach has settled since, and the
\* state is still the loading state of the moment of detach
C3_Witness ==
    /\ ~attached
    /\ pendingAtDetach \ pending # {}
    /\ state.status = "loading"

\* C4: status moves only to loading (by execute), or from loading to success or
\* error; every execute() call leaves the loading state with data and error null.
C4_TransitionsOnlyFromLoading ==
    [][/\ (state' # state /\ state'.status \in {"success", "error"})
            => state.status = "loading"
       /\ (state' # state) => state'.status # "idle"
       /\ (nCalls' # nCalls) => state' = LoadingState]_vars

\* C5 as stated: with status success or error exactly one of data and error is
\* non-null, and in idle and loading both are null.
C5_ExactlyOneNonNull ==
    /\ state.status = "success" => (state.data # JsNull /\ state.error = JsNull)
    /\ state.status = "error" => (state.error # JsNull /\ state.data = JsNull)
    /\ state.status \in {"idle", "loading"} => (state.data = JsNull /\ state.error = JsNull)

\* C5 amended: with status success error is null and data is the value some call
\* resolved with (null when it resolved with null); with status error data is null
\* and error is the Error object some call's rejection normalises to, never null;
\* in idle and loading both are null.
C5_DataErrorShape ==
    /\ state.status = "success" =>
          /\ state.error = JsNull
          /\ \E c \in 1..nCalls : outcome[c] = [kind |-> "resolved", v |-> state.data]
    /\ state.status = "error" =>
          /\ state.data = JsNull
          /\ state.error.tag = "Error"
          /\ \E c \in 1..nCalls :
                /\ outcome[c].kind = "rejected"
                /\ state.error = NormalizeError(outcome[c].v)
                /\ state.error.s = IF outcome[c].v.tag = "Error"
                                   THEN outcome[c].v.s ELSE JsString(outcome[c].v)
    /\ state.status \in {"idle", "loading"} => (state.data = JsNull /\ state.error = JsNull)
    /\ state.isLoading = (state.status = "loading")

\* C5 witness: a call resolved with null, and success holds neither data nor error
C5_Witness ==
    /\ state.status = "success"
    /\ state.data = JsNull
    /\ state.error = JsNull

\* C6: as long as every render passes the immediate flag the hook was created
\* with, the hook itself has called execute() exactly once (at creation) when the
\* flag is true, whatever asyncFunction the re-renders passed, and never when it
\* is false.
C6_AutoExecuteOnlyAtCreation ==
    ~immediateChanged => autoExecs = IF createdImmediate THEN 1 ELSE 0

(***************************************************************************)
(* useLocalStorage / useSessionStorage: properties                         *)
(***************************************************************************)
\* C7: a new instance created on the same store and key right after a setValue
\* whose write succeeded, and that reads the store, starts with the value that
\* was set and not with its default.
C7_ReloadYieldsSetValue ==
    (lastOp = "reloadAfterSet" /\ ~readFailed) => storedValue = lastValue

\* C7 witness: the empty string was set and a reload with another default read it
C7_Witness ==
    /\ lastOp = "reloadAfterSet"
    /\ ~readFailed
    /\ lastValue = JsStr(<<>>)
    /\ storedValue = JsStr(<<>>)
    /\ initialValue # JsStr(<<>>)

\* C8: after a setValue or removeValue whose store call succeeded, the in-memory
\* value equals what reading the key from the store yields (the default when the
\* entry is absent).
C8_MemoryEqualsStore ==
    lastOp \in {"set", "remove"} =>
        /\ storedValue = ReadInitial(store[key], initialValue, FALSE)
        /\ lastOp = "remove" => (~store[key].present /\ storedValue = initialValue)
        /\ lastOp = "set" => (store[key].present
                                /\ JSONParse(store[key].text) = [ok |-> TRUE, v |-> storedValue])

\* C8 witness: removeValue after an earlier setValue of another value
C8_Witness ==
    /\ lastOp = "remove"
    /\ lastValue \in JsonValues \ {initialValue}
    /\ storedValue = initialValue
    /\ ~store[key].present

\* C9: after a run of chainLen successive setValue(prev => prev + 1) calls the
\* in-memory value is the updater applied chainLen times to the value before the
\* run, and so is the stored value when the last write succeeded.
C9_UpdatersCompose ==
    chainLen >= 1 =>
        /\ storedValue = JsNum(chainBase.n + chainLen)
        /\ lastOp = "set" => store[key] = Present(Digits(chainBase.n + chainLen))

\* the value C10 expects a new instance to start with
C10_Expected ==
    IF readFailed \/ ~store[key].present \/ ~JSONParse(store[key].text).ok
    THEN initialValue
    ELSE JSONParse(store[key].text).v

\* C10: a new instance starts with its default when the store has no entry for
\* the key, when the entry does not parse, or when reading the store fails, and
\* with the parsed entry in every other case; it never throws.
C10_InitialValue ==
    lastOp \in {"create", "reload", "reloadAfterSet"} =>
        /\ storedValue = C10_Expected
        /\ storedValue # JsThrown

\* C10 witness: the entry "0" parses to a falsy value, which the instance starts
\* with although its default is another value
C10_Witness ==
    /\ lastOp = "create"
    /\ ~readFailed
    /\ store[key] = Present(<<"0">>)
    /\ storedValue = JsNum(0)
    /\ initialValue # JsNum(0)

\* C11: a setValue whose store write fails does not throw, leaves the new value in
\* memory and leaves the store as it was before the call (the write is attempted
\* once: nothing writes the value later).
C11_FailedWriteKeepsMemory ==
    [][lastOp' = "setFailed" =>
          /\ storedValue' = lastValue'
          /\ storedValue' # JsThrown
          /\ store' = store]_vars

\* C11 witness: after a failed write memory holds the new value and the store
\* still holds the entry of an earlier successful write of another value
C11_Witness ==
    /\ lastOp = "setFailed"
    /\ storedValue = lastValue
    /\ store[key].present
    /\ JSONParse(store[key].text).ok
    /\ JSONParse(store[key].text).v \in JsonValues \ {storedValue}

Leaving ==
    {notifications[i] : i \in {j \in 1..Len(notifications) :
        \A k \in 1..Len(notifications') : notifications'[k].seq # notifications[j].seq}}

\* the notification the last addNotification call built
LastAdded == nAdded[Len(nAdded)]

\* C13: a notification with duration d > 0 stays queued until its own timer
\* fires d ms after the add and is absent afterwards; one with duration 0 is
\* removed only by removeNotification or clearNotifications, never by a timer;
\* an omitted duration is 5000 and an omitted type 'info'.
C13_AutoDismiss ==
    [][/\ \A gone \in Leaving :
             \/ nOp'.op \in {"remove", "clear"}
             \/ /\ nOp'.op = "timer"
                /\ gone.duration > 0
                /\ now >= gone.timestamp + gone.duration
       /\ \A i \in 1..Len(notifications') :
             notifications'[i].duration > 0 =>
                now' <= notifications'[i].timestamp + notifications'[i].duration
       /\ nOp'.op = "add" =>
             /\ ~nOp'.given => LastAdded'.duration = 5000
             /\ ~nOp'.typeGiven => LastAdded'.type = "info"]_vars

\* C16: every id addNotification returns differs from every id it returned
\* before, so one removeNotification call or one timer removes at most one
\* notification.
C16_IdsUnique ==
    /\ \A i, j \in 1..Len(nAdded) : i # j => nAdded[i].id # nAdded[j].id
    /\ \A id \in RemoveArgs : Cardinality(SeqsWithId(id)) <= 1

\* the notifications added so far that no removal, expiry or clear took out
NotGone(added, gone) ==
    LET Kept(e) == e.seq \notin gone IN SelectSeq(added, Kept)

\* C14: the queue lists exactly the notifications added and not yet removed,
\* expired or cleared, in the order of their addNotification calls.
C14_QueueIsAddedNotGone == notifications = NotGone(nAdded, nGone)

\* the second of two notifications is left, in place, after the first expired
C14_Witness ==
    /\ Len(nAdded) = 2
    /\ nOp.op = "timer"
    /\ nGone = {1}
    /\ notifications = <<nAdded[2]>>

\* C15: removeNotification(id) with an id that is not queued changes nothing,
\* removing twice equals removing once, and every notification with another
\* id stays, in order.
C15_RemoveIdempotent ==
    [][/\ (nOp'.op = "remove" /\ nOp'.absent) => notifications' = notifications
       /\ \A id \in RemoveArgs' :
             LET once == RemoveFrom(notifications', id)
                 Other(e) == e.id # id
             IN /\ RemoveFrom(once, id) = once
                /\ SelectSeq(once, Other) = SelectSeq(notifications', Other)
                /\ Len(once) = Len(SelectSeq(notifications', Other))]_vars

\* an unknown id was removed from a queue of two, which is still there
C15_Witness ==
    /\ nOp.op = "remove"
    /\ nOp.absent
    /\ Len(notifications) = 2

(***************************************************************************)
(* useDebounce                                                             *)
(***************************************************************************)

\* C17: the output changes to v only after v has been the latest input for
\* delay ms: an emission writes the latest input, no earlier than delay ms
\* after it arrived; at most one emission is pending, and it is the one
\* scheduled last, so no superseded value is ever output.
C17_OnlyLatestAfterDelay ==
    [][/\ dOp'.op = "emit" =>
             /\ debouncedValue' = dValue
             /\ dNow >= dSince + dDelay
       /\ Cardinality(dTimers') <= 1
       /\ \A timer \in dTimers' : timer.seq = dHandler' /\ timer.value = dValue'
       /\ debouncedValue' # debouncedValue => dOp'.op = "emit"]_vars

\* the output has just changed, after two pending emissions were superseded
C17_Witness ==
    /\ dOp.op = "emit"
    /\ dOp.from # debouncedValue
    /\ dOp.skipped = 2
    /\ debouncedValue = dValue
    /\ dTimers = {}

\* C18: once the component has unmounted no emission is pending and the
\* debounced value never changes again.
C18_NoEmissionAfterDetach ==
    [][/\ ~dAttached' => dTimers' = {}
       /\ ~dAttached => debouncedValue' = debouncedValue]_vars

\* the component unmounted with an emission pending, whose time has passed
C18_Witness ==
    /\ ~dAttached
    /\ dDetach.pending
    /\ dNow > dDetach.due
    /\ dTimers = {}
    /\ debouncedValue # dValue

(***************************************************************************)
(* useDebouncedCallback                                                    *)
(***************************************************************************)

\* C19: once the owning component has unmounted no timer of the hook is
\* pending and no wrapped callback is executed.
C19_NoExecutionAfterTeardown ==
    /\ ~cAttached => cTimers = {}
    /\ cLastExec.attached

\* a timer has just run
Executes == Len(cExecuted') > Len(cExecuted)

\* C20: each invocation cancels the previous pending timer, so at most one
\* timer is pending; a timer that runs is the one of the latest invocation,
\* it runs once, no earlier than delay ms after that invocation, and calls
\* that invocation's callback with that invocation's arguments, whatever the
\* component has rendered in between.
C20_OnlyLastInvocationRuns ==
    [][/\ Cardinality(cTimers') <= 1
       /\ Executes =>
             /\ cLastExec'.seq = cInvokes
             /\ cLastExec'.callback = cLast.callback
             /\ cLastExec'.args = cLast.args
             /\ cNow >= cLast.due
             /\ \A i \in 1..Len(cExecuted) : cExecuted[i] # cLastExec'.seq]_vars

\* three invocations, the callback replaced after the last one: only the third
\* has run, with its own callback and arguments
C20_Witness ==
    /\ cInvokes = 3
    /\ cExecuted = <<3>>
    /\ cLastExec.callback = cLast.callback
    /\ cLastExec.args = cLast.args
    /\ cLastExec.callback # cCallback
    /\ cTimers = {}

(***************************************************************************)
(* useThrottle                                                             *)
(***************************************************************************)

\* an invocation of the throttled function has just been made
Invoked == tOp'.op \in {"run", "drop"} /\ tInvokes' = tInvokes + 1

\* what an invocation and the other steps do to the executions
ThrottleStep(ran) ==
    /\ Invoked /\ ran =>
          /\ tOp'.op = "run"
          /\ tOp'.callback = tCallback
          /\ tRuns' = tRuns + 1
          /\ tLastExec' = tNow
    /\ Invoked /\ ~ran =>
          /\ tOp'.op = "drop"
          /\ tRuns' = tRuns
    /\ ~Invoked => tRuns' = tRuns
    /\ (tOp'.op = "run" /\ Invoked /\ tRuns > 0) => tNow - tLastExec >= tDelay

\* C21 as stated: an invocation executes the callback at once exactly when
\* delay ms have passed since the last execution (none yet: nothing to wait
\* for), else it is dropped; nothing executes outside an invocation, and two
\* executions are delay ms apart.
C21_RunsIffDelaySinceLastRun ==
    [][ThrottleStep(tRuns = 0 \/ tNow - tLastExec >= tDelay)]_vars

\* C21, with the time of creation standing in for the last execution while
\* the callback has not been executed yet.
C21_RunsIffDelaySinceLastRunOrCreation ==
    [][ThrottleStep(tNow - (IF tRuns = 0 THEN tCreated ELSE tLastExec) >= tDelay)]_vars

\* a second execution, after an invocation in between was dropped
C21_Witness ==
    /\ tOp.op = "run"
    /\ tRuns = 2
    /\ tInvokes = 3
    /\ tLastExec = tNow

\* C30: until the first execution lastRunRef is the creation time, whatever
\* is rendered: an invocation less than delay ms after creation is dropped
\* and the first execution is at least delay ms after creation.
C30_FirstRunAfterDelay ==
    [][/\ tRuns' = 0 => lastRunRef' = tCreated'
       /\ (Invoked /\ tRuns = 0 /\ tNow - tCreated < tDelay) =>
             tOp'.op = "drop" /\ tRuns' = 0
       /\ (tRuns = 0 /\ tRuns' = 1) => tNow >= tCreated + tDelay
       /\ tOp'.op = "render" => lastRunRef' = lastRunRef]_vars

\* the callback has never run, the delay was changed, and an invocation less
\* than delay ms after creation has just been dropped
C30_Witness ==
    /\ tOp.op = "drop"
    /\ tRuns = 0
    /\ tInvokes >= 1
    /\ tNow - tCreated < tDelay
    /\ tNow > tCreated
    /\ tCallback = "g"

(***************************************************************************)
(* FormProvider                                                            *)
(***************************************************************************)

\* C22: after resetForm(initial?) errors and touched are empty, isSubmitting
\* is false, and the fields are the snapshot passed, or else the initial data
\* the provider was created with.
C22_ResetRestoresOriginal ==
    fOp.op = "resetForm" =>
        /\ errors = EmptyObject
        /\ touched = {}
        /\ ~isSubmitting
        /\ formData = IF fOp.given THEN fOp.snapshot ELSE fOriginal

\* C23: isFieldDirty(name, initialValue) is false when initialValue is
\* undefined and otherwise true exactly when the field's current value is
\* not initialValue.
C23_DirtyIffDiffersFromBaseline ==
    fOp.op = "isFieldDirty" =>
        fOp.result = (fOp.value # JsUndefined /\ Get(fRendered, fOp.name) # fOp.value)

\* no baseline was passed for a field that holds a value: not dirty
C23_Witness ==
    /\ fOp.op = "isFieldDirty"
    /\ fOp.value = JsUndefined
    /\ fOp.name \in DOMAIN fRendered
    /\ ~fOp.result

\* the fields other than keys are what they were
OtherFieldsKept(keys) ==
    \A k \in FieldNames \ keys :
        /\ k \in DOMAIN formData' <=> k \in DOMAIN formData
        /\ Get(formData', k) = Get(formData, k)

\* errors, touched and isSubmitting are what they were
FormFrame == errors' = errors /\ touched' = touched /\ isSubmitting' = isSubmitting

\* C24: updateField(name, value) sets field name to value and updateFields(map)
\* the keys of map, on top of every update made before, rendered or not; all
\* other fields, errors, touched and isSubmitting stay, and the next render
\* shows the result of all updates.
C24_UpdatesMergeAndCompose ==
    [][/\ fOp'.op = "updateField" =>
             /\ Get(formData', fOp'.name) = fOp'.value
             /\ OtherFieldsKept({fOp'.name})
             /\ FormFrame
       /\ fOp'.op = "updateFields" =>
             /\ \A k \in DOMAIN fOp'.snapshot : Get(formData', k) = fOp'.snapshot[k]
             /\ OtherFieldsKept(DOMAIN fOp'.snapshot)
             /\ FormFrame
       /\ fOp'.op = "render" => fRendered' = formData]_vars

\* two updates in a row, no render in between: both fields are set
C24_Witness ==
    /\ fOp.op = "updateField"
    /\ fOp.batched
    /\ fRendered = EmptyObject
    /\ DOMAIN formData = {"a", "b"}

(***************************************************************************)
(* ThemeProvider                                                           *)
(***************************************************************************)

\* C25: once the provider has applied a theme change (its effect has run for
\* the current theme) the entry under 'app-theme' is the theme and the root
\* has the 'dark' class exactly when the theme is dark; the effect changes
\* both mirrors or none; the theme is light or dark.
C25_MirrorsFollowTheme ==
    /\ theme \in {"light", "dark"}
    /\ thEffectFor = theme =>
          /\ thStore = StoredTheme(theme)
          /\ darkClass <=> theme = "dark"

\* C26: the initial theme is the stored value when that is 'light' or 'dark',
\* else the colour scheme matchMedia reports when it is available, else light.
C26_InitialThemeOrder ==
    thInitial =
        CASE thInitStore \in {StoredTheme("light"), StoredTheme("dark")} ->
                thInitStore.text
          [] OTHER -> CASE thMedia \in {"light", "dark"} -> thMedia
                        [] OTHER -> "light"

\* the store holds another value and the platform prefers dark: dark
C26_Witness ==
    /\ thOp = "mount"
    /\ thInitStore = StoredTheme("auto")
    /\ thMedia = "dark"
    /\ theme = "dark"
    /\ thInitial = "dark"

(***************************************************************************)
(* Modal                                                                   *)
(***************************************************************************)

\* instance m is mounted and open
IsOpenModal(m) == modals[m].mounted /\ modals[m].isOpen

\* C28: whenever an instance is open the body overflow is 'hidden', and it is
\* not 'hidden' when none is open; an instance has its Escape handler
\* registered exactly while it is open.
C28_ScrollLockedWhileOpen ==
    /\ \A m \in Modals : IsOpenModal(m) => bodyOverflow = "hidden"
    /\ (\A m \in Modals : ~IsOpenModal(m)) => bodyOverflow # "hidden"
    /\ \A m \in Modals : Listening(m) <=> IsOpenModal(m)

(***************************************************************************)
(* Notification queue: timers that outlive their notification              *)
(***************************************************************************)

\* the timers that run in a step
Fired == nTimers \ nTimers'

\* C29: clearNotifications empties the queue and leaves the timers pending; a
\* timer whose own notification has been cleared or removed before changes
\* nothing when it fires, whatever has been added since.
C29_LateTimerChangesNothing ==
    [][/\ nOp'.op = "clear" => notifications' = <<>> /\ nTimers' = nTimers
       /\ nOp'.op = "timer" =>
             \A timer \in Fired :
                 timer.seq \in nGone => notifications' = notifications]_vars

(***************************************************************************)
(* The hook boundary                                                       *)
(***************************************************************************)

\* C27: no call of a hook operation throws or rejects, whatever fails in the
\* store or in the async function, except that useTheme, useNotification and
\* useForm throw, exactly when they are called outside their provider.
C27_OnlyAccessorsThrow ==
    /\ bCall.outcome.ends # "returns" =>
          /\ bCall.outcome.by \in {"useTheme", "useNotification", "useForm"}
          /\ ~bCall.inProvider
    /\ bCall.hook \in {"useTheme", "useNotification", "useForm"} =>
          (bCall.outcome.ends = "throws" <=> ~bCall.inProvider)

=========================================================================
